---------------------------- MODULE Spec2Model ----------------------------
(***************************************************************************)
(* A model of stenella.go: the in-memory feed source list guarded by the   *)
(* reader/writer lock srcMu, the HTTP handlers that list, add and remove   *)
(* sources, and the fetch / parse / merge / sort pipeline of               *)
(* aggregateFeeds.                                                         *)
(*                                                                         *)
(* Strings are sequences of one-character strings, so that TrimSpace and   *)
(* the scheme scan of url.Parse are computed character by character.       *)
(***************************************************************************)
EXTENDS Integers, Sequences, FiniteSets, TLC

(***************************************************************************)
(* Bounds of the model.                                                    *)
(***************************************************************************)
\* number of request goroutines that can be in flight at the same time
NumProcs == 2
\* largest wall-clock reading time.Now() returns
MaxNow == 2

Procs == 1..NumProcs
NoProc == 0

(***************************************************************************)
(* Strings.                                                                *)
(***************************************************************************)
Letters ==
    {"a","b","c","d","e","f","g","h","i","j","k","l","m","n","o","p","q",
     "r","s","t","u","v","w","x","y","z"}
Digits == {"0","1","2","3","4","5","6","7","8","9"}
Spaces == {" ", "\t", "\n", "\r"}
ControlChars == {"\t", "\n", "\r"}

RECURSIVE TrimLeft(_)
TrimLeft(s) ==
    IF s # <<>> /\ Head(s) \in Spaces THEN TrimLeft(Tail(s)) ELSE s

RECURSIVE TrimRight(_)
TrimRight(s) ==
    IF s # <<>> /\ s[Len(s)] \in Spaces
    THEN TrimRight(SubSeq(s, 1, Len(s) - 1))
    ELSE s

\* strings.TrimSpace
TrimSpace(s) == TrimRight(TrimLeft(s))

HasPrefix(s, pre) == Len(s) >= Len(pre) /\ SubSeq(s, 1, Len(pre)) = pre

\* index of the first occurrence of character c in s at or after i, 0 if none
RECURSIVE IndexFrom(_, _, _)
IndexFrom(s, c, i) ==
    IF i > Len(s) THEN 0
    ELSE IF s[i] = c THEN i
    ELSE IndexFrom(s, c, i + 1)

Index(s, c) == IndexFrom(s, c, 1)

\* index of the last occurrence of character c in s, 0 if none
RECURSIVE LastIndexFrom(_, _, _)
LastIndexFrom(s, c, i) ==
    IF i < 1 THEN 0
    ELSE IF s[i] = c THEN i
    ELSE LastIndexFrom(s, c, i - 1)

LastIndex(s, c) == LastIndexFrom(s, c, Len(s))

(***************************************************************************)
(* net/url as used by the handlers: url.Parse and URL.IsAbs.               *)
(***************************************************************************)
\* getScheme: scan for "scheme:"; a colon at index 0 is an error, a
\* character that cannot be part of a scheme means there is no scheme
RECURSIVE SchemeScan(_, _)
SchemeScan(raw, i) ==
    IF i > Len(raw) THEN [scheme |-> <<>>, rest |-> raw, err |-> FALSE]
    ELSE IF raw[i] \in Letters THEN SchemeScan(raw, i + 1)
    ELSE IF raw[i] \in Digits \cup {"+", "-", "."}
         THEN IF i = 1
              THEN [scheme |-> <<>>, rest |-> raw, err |-> FALSE]
              ELSE SchemeScan(raw, i + 1)
    ELSE IF raw[i] = ":"
         THEN IF i = 1
              THEN [scheme |-> <<>>, rest |-> <<>>, err |-> TRUE]
              ELSE [scheme |-> SubSeq(raw, 1, i - 1),
                    rest |-> SubSeq(raw, i + 1, Len(raw)),
                    err |-> FALSE]
    ELSE [scheme |-> <<>>, rest |-> raw, err |-> FALSE]

getScheme(raw) == SchemeScan(raw, 1)

\* the authority of "//authority/path" and what follows it
Authority(rest) ==
    LET after == SubSeq(rest, 3, Len(rest))
        slash == Index(after, "/")
    IN  IF slash = 0
        THEN [host |-> after, path |-> <<>>]
        ELSE [host |-> SubSeq(after, 1, slash - 1),
              path |-> SubSeq(after, slash, Len(after))]

\* parseAuthority: a host holds no space, and a port is made of digits
ValidHost(host) ==
    /\ \A i \in 1..Len(host) : host[i] \notin Spaces
    /\ LET colon == LastIndex(host, ":")
       IN  colon # 0 =>
             \A i \in (colon + 1)..Len(host) : host[i] \in Digits

\* url.Parse on strings over Letters, Digits, Spaces and + - . : /
\* (no userinfo, query, fragment or escape)
urlParse(raw) ==
    LET gs == getScheme(raw)
        noURL == [err |-> TRUE, scheme |-> <<>>, host |-> <<>>, path |-> <<>>,
                  opaque |-> <<>>]
    IN  IF \E i \in 1..Len(raw) : raw[i] \in ControlChars
        THEN \* invalid control character in URL
             noURL
        ELSE IF gs.err THEN noURL
        ELSE IF ~HasPrefix(gs.rest, <<"/">>)
        THEN IF gs.scheme # <<>>
             THEN \* a rootless path after a scheme is opaque
                  [err |-> FALSE, scheme |-> gs.scheme, host |-> <<>>,
                   path |-> <<>>, opaque |-> gs.rest]
             ELSE LET slash == Index(gs.rest, "/")
                      segment == IF slash = 0 THEN gs.rest
                                 ELSE SubSeq(gs.rest, 1, slash - 1)
                  IN  IF Index(segment, ":") # 0
                      THEN \* first path segment in URL cannot contain colon
                           noURL
                      ELSE [err |-> FALSE, scheme |-> <<>>, host |-> <<>>,
                            path |-> gs.rest, opaque |-> <<>>]
        ELSE IF HasPrefix(gs.rest, <<"/", "/">>)
        THEN LET au == Authority(gs.rest)
             IN  IF ValidHost(au.host)
                 THEN [err |-> FALSE, scheme |-> gs.scheme, host |-> au.host,
                       path |-> au.path, opaque |-> <<>>]
                 ELSE noURL
        ELSE [err |-> FALSE, scheme |-> gs.scheme, host |-> <<>>,
              path |-> gs.rest, opaque |-> <<>>]

\* URL.IsAbs
IsAbs(u) == u.scheme # <<>>

(***************************************************************************)
(* The URLs of the model.                                                  *)
(***************************************************************************)
\* "https://news.ycombinator.com/rss"
HackerNews ==
    <<"h","t","t","p","s",":","/","/","n","e","w","s",".","y","c","o","m",
      "b","i","n","a","t","o","r",".","c","o","m","/","r","s","s">>
\* "https://www.reddit.com/r/golang/.rss"
Reddit ==
    <<"h","t","t","p","s",":","/","/","w","w","w",".","r","e","d","d","i",
      "t",".","c","o","m","/","r","/","g","o","l","a","n","g","/",".","r",
      "s","s">>
\* "https://x/rss"
XRss == <<"h","t","t","p","s",":","/","/","x","/","r","s","s">>
\* "https://not-present"
NotPresent ==
    <<"h","t","t","p","s",":","/","/","n","o","t","-","p","r","e","s","e",
      "n","t">>
\* "not-a-url"
NotAURL == <<"n","o","t","-","a","-","u","r","l">>

\* the default sources the process starts with
DefaultSources == <<HackerNews, Reddit>>

\* what json.Decoder.Decode yields for a request body: a decode error, or a
\* payload whose URL field is the body's "url" (empty when the key is absent)
BadJSON == [err |-> TRUE, URL |-> <<>>]
Payload(u) == [err |-> FALSE, URL |-> u]

\* request bodies sent to POST /api/sources/add
AddBodies ==
    {BadJSON} \cup
    { Payload(u) : u \in
        { HackerNews, XRss, <<" ">> \o XRss \o <<"\n">>, NotAURL, <<>>, <<" ", "\t">>, <<":", "x">>, <<"1", ":", "x">>,
          <<"/", "r", "s", "s">>, <<"h", ":", "/", "/", "x", " ", "y">>,
          <<"h", ":", "/", "/", "x", ":", "p">> } }

\* request bodies sent to POST /api/sources/remove
RemoveBodies ==
    {BadJSON} \cup
    { Payload(u) : u \in
        { HackerNews, Reddit, XRss, <<" ">> \o XRss, NotPresent, <<>>,
          <<" ">> } }


(***************************************************************************)
(* State.                                                                  *)
(***************************************************************************)
VARIABLES
    feedSources,  \* the global source list
    writer,       \* srcMu: the goroutine between Lock() and Unlock(), or NoProc
    waiting,      \* srcMu: the goroutines blocked in Lock()
    readers,      \* srcMu: the goroutines between RLock() and RUnlock()
    pc,           \* where each request goroutine is
    handler,      \* the handler each goroutine runs
    body,         \* the decoded request body of an add or remove request
    url,          \* payload.URL after trimming
    list,         \* apiSourcesHandler's copy of the source list
    newList,      \* apiRemoveSourceHandler's list without the removed URL
    sources,      \* aggregateFeeds' copy of the source list
    all,          \* aggregateFeeds' accumulated items
    status,       \* the HTTP status written, 0 while none is
    log,          \* per request: the lines it has written with log.Printf
    now,          \* the last reading of the wall clock
    fetched,      \* per aggregation: what each fetchFeed call was given and got
    locked        \* per request: whether it has called srcMu.Lock or RLock

vars ==
    <<feedSources, writer, waiting, readers, pc, handler, body, url, list, newList,
      sources, all, status, log, now, fetched, locked>>

srcMu == <<writer, waiting, readers>>
locals == <<body, url, list, newList, sources, all, fetched>>

StatusOK == 200
StatusCreated == 201
StatusBadRequest == 400
StatusNotFound == 404
StatusConflict == 409
StatusInternalServerError == 500

Init ==
    /\ feedSources = DefaultSources
    /\ writer = NoProc
    /\ waiting = {}
    /\ readers = {}
    /\ pc = [p \in Procs |-> "idle"]
    /\ handler = [p \in Procs |-> "none"]
    /\ body = [p \in Procs |-> Payload(<<>>)]
    /\ url = [p \in Procs |-> <<>>]
    /\ list = [p \in Procs |-> <<>>]
    /\ newList = [p \in Procs |-> <<>>]
    /\ sources = [p \in Procs |-> <<>>]
    /\ all = [p \in Procs |-> <<>>]
    /\ status = [p \in Procs |-> 0]
    /\ log = [p \in Procs |-> <<>>]
    /\ now = 0
    /\ fetched = [p \in Procs |-> <<>>]
    /\ locked = [p \in Procs |-> FALSE]

(***************************************************************************)
(* srcMu, a sync.RWMutex.  Lock() blocks until no writer and no reader is  *)
(* inside, and a goroutine blocked in Lock() keeps later readers out;      *)
(* RLock() blocks while a writer is inside or waiting.                     *)
(***************************************************************************)
\* Lock() is called
LockBegin(p) ==
    /\ waiting' = waiting \cup {p}
    /\ locked' = [locked EXCEPT ![p] = TRUE]
    /\ UNCHANGED <<writer, readers>>

\* LockEnter, but letting the caller in whoever is inside
LockEnterNoExclusion(p) ==
    /\ p \in waiting
    /\ writer' = p
    /\ waiting' = waiting \ {p}
    /\ UNCHANGED readers

\* Lock() returns
LockEnter(p) ==
    /\ p \in waiting
    /\ writer = NoProc
    /\ readers = {}
    /\ writer' = p
    /\ waiting' = waiting \ {p}
    /\ UNCHANGED readers

Unlock(p) == writer' = NoProc /\ UNCHANGED <<waiting, readers>>

RLock(p) ==
    /\ writer = NoProc
    /\ waiting = {}
    /\ readers' = readers \cup {p}
    /\ locked' = [locked EXCEPT ![p] = TRUE]
    /\ UNCHANGED <<writer, waiting>>

RUnlock(p) == readers' = readers \ {p} /\ UNCHANGED <<writer, waiting>>

\* the request body's URL is usable: decoded, and not empty once trimmed
Decoded(b) == ~b.err /\ TrimSpace(b.URL) # <<>>

(***************************************************************************)
(* POST /api/sources/add                                                   *)
(***************************************************************************)
\* ValidURL, but without the IsAbs test
ValidURLParsesOnly(u) == ~urlParse(u).err

\* the URL check of the add handler: parses, and is absolute
ValidURL(u) == LET parsed == urlParse(u) IN ~parsed.err /\ IsAbs(parsed)

AddDecode(p, Bodies) ==
    /\ pc[p] = "idle"
    /\ \E b \in Bodies :
         /\ handler' = [handler EXCEPT ![p] = "add"]
         /\ body' = [body EXCEPT ![p] = b]
         /\ IF ~Decoded(b)
            THEN \* "invalid JSON payload"
                 /\ status' = [status EXCEPT ![p] = StatusBadRequest]
                 /\ pc' = [pc EXCEPT ![p] = "done"]
                 /\ UNCHANGED url
            ELSE IF ~ValidURL(TrimSpace(b.URL))
            THEN \* "invalid URL"
                 /\ status' = [status EXCEPT ![p] = StatusBadRequest]
                 /\ pc' = [pc EXCEPT ![p] = "done"]
                 /\ url' = [url EXCEPT ![p] = TrimSpace(b.URL)]
            ELSE /\ url' = [url EXCEPT ![p] = TrimSpace(b.URL)]
                 /\ pc' = [pc EXCEPT ![p] = "add_lock"]
                 /\ UNCHANGED status
    /\ UNCHANGED <<feedSources, srcMu, list, newList, sources, all, log, now,
                   fetched, locked>>

AddLock(p) ==
    /\ pc[p] = "add_lock"
    /\ LockBegin(p)
    /\ pc' = [pc EXCEPT ![p] = "add_wait"]
    /\ UNCHANGED <<feedSources, handler, locals, status, log, now>>

AddEnter(p) ==
    /\ pc[p] = "add_wait"
    /\ LockEnter(p)
    /\ pc' = [pc EXCEPT ![p] = "add_cs"]
    /\ UNCHANGED <<feedSources, handler, locals, status, log, now, locked>>

\* Scan, but stopping one entry short of the end
ScanAllButLast(s, u) == \E i \in 1..(Len(s) - 1) : s[i] = u

\* the loop over feedSources: whether one of them is u
Scan(s, u) == \E i \in 1..Len(s) : s[i] = u

\* the duplicate scan; on a duplicate, Unlock and "source already exists"
AddScan(p) ==
    /\ pc[p] = "add_cs"
    /\ IF Scan(feedSources, url[p])
       THEN /\ Unlock(p)
            /\ status' = [status EXCEPT ![p] = StatusConflict]
            /\ pc' = [pc EXCEPT ![p] = "done"]
       ELSE /\ pc' = [pc EXCEPT ![p] = "add_append"]
            /\ UNCHANGED <<srcMu, status>>
    /\ UNCHANGED <<feedSources, handler, locals, log, now, locked>>

\* the append, Unlock and the status
AddAppend(p) ==
    /\ pc[p] = "add_append"
    /\ feedSources' = Append(feedSources, url[p])
    /\ Unlock(p)
    /\ status' = [status EXCEPT ![p] = StatusCreated]
    /\ pc' = [pc EXCEPT ![p] = "done"]
    /\ UNCHANGED <<handler, locals, log, now, locked>>

apiAddSourceHandler(p, Bodies) ==
    \/ AddDecode(p, Bodies)
    \/ AddLock(p)
    \/ AddEnter(p)
    \/ AddScan(p)
    \/ AddAppend(p)

(***************************************************************************)
(* POST /api/sources/remove                                                *)
(***************************************************************************)
\* Without, but filling the hole with the last entry instead of shifting
WithoutSwapLast(s, u) ==
    LET k == Index(s, u)
    IN  IF k = 0 THEN s
        ELSE SubSeq([s EXCEPT ![k] = s[Len(s)]], 1, Len(s) - 1)

\* the list the removal loop builds: every entry that is not u, in order
RECURSIVE Without(_, _)
Without(s, u) ==
    IF s = <<>> THEN <<>>
    ELSE IF Head(s) = u THEN Without(Tail(s), u)
    ELSE <<Head(s)>> \o Without(Tail(s), u)

RemoveDecode(p, Bodies) ==
    /\ pc[p] = "idle"
    /\ \E b \in Bodies :
         /\ handler' = [handler EXCEPT ![p] = "remove"]
         /\ body' = [body EXCEPT ![p] = b]
         /\ IF ~Decoded(b)
            THEN /\ status' = [status EXCEPT ![p] = StatusBadRequest]
                 /\ pc' = [pc EXCEPT ![p] = "done"]
                 /\ UNCHANGED url
            ELSE /\ url' = [url EXCEPT ![p] = TrimSpace(b.URL)]
                 /\ pc' = [pc EXCEPT ![p] = "rm_lock"]
                 /\ UNCHANGED status
    /\ UNCHANGED <<feedSources, srcMu, list, newList, sources, all, log, now,
                   fetched, locked>>

RemoveLock(p) ==
    /\ pc[p] = "rm_lock"
    /\ LockBegin(p)
    /\ pc' = [pc EXCEPT ![p] = "rm_wait"]
    /\ UNCHANGED <<feedSources, handler, locals, status, log, now>>

RemoveEnter(p) ==
    /\ pc[p] = "rm_wait"
    /\ LockEnter(p)
    /\ pc' = [pc EXCEPT ![p] = "rm_cs"]
    /\ UNCHANGED <<feedSources, handler, locals, status, log, now, locked>>

\* RemoveScan, but without the test of found
RemoveScanNoFoundTest(p) ==
    /\ pc[p] = "rm_cs"
    /\ newList' = [newList EXCEPT ![p] = Without(feedSources, url[p])]
    /\ pc' = [pc EXCEPT ![p] = "rm_store"]
    /\ UNCHANGED <<feedSources, srcMu, status, handler, body, url, list,
                   sources, all, fetched, log, now, locked>>

\* the loop that builds newList; when nothing was found, Unlock and
\* "source not found"
RemoveScan(p) ==
    /\ pc[p] = "rm_cs"
    /\ IF ~Scan(feedSources, url[p])
       THEN /\ Unlock(p)
            /\ status' = [status EXCEPT ![p] = StatusNotFound]
            /\ pc' = [pc EXCEPT ![p] = "done"]
            /\ UNCHANGED newList
       ELSE /\ newList' = [newList EXCEPT ![p] = Without(feedSources, url[p])]
            /\ pc' = [pc EXCEPT ![p] = "rm_store"]
            /\ UNCHANGED <<srcMu, status>>
    /\ UNCHANGED <<feedSources, handler, body, url, list, sources, all,
                   fetched, log, now, locked>>

\* feedSources = newList, Unlock and the status; newList is dropped as the
\* handler returns
RemoveStore(p) ==
    /\ pc[p] = "rm_store"
    /\ feedSources' = newList[p]
    /\ newList' = [newList EXCEPT ![p] = <<>>]
    /\ Unlock(p)
    /\ status' = [status EXCEPT ![p] = StatusOK]
    /\ pc' = [pc EXCEPT ![p] = "done"]
    /\ UNCHANGED <<handler, body, url, list, sources, all, fetched, log, now,
                   locked>>

apiRemoveSourceHandler(p, Bodies) ==
    \/ RemoveDecode(p, Bodies)
    \/ RemoveLock(p)
    \/ RemoveEnter(p)
    \/ RemoveScan(p)
    \/ RemoveStore(p)

(***************************************************************************)
(* GET /api/sources                                                        *)
(***************************************************************************)
SourcesBegin(p) ==
    /\ pc[p] = "idle"
    /\ handler' = [handler EXCEPT ![p] = "sources"]
    /\ pc' = [pc EXCEPT ![p] = "ls_rlock"]
    /\ UNCHANGED <<feedSources, srcMu, locals, status, log, now, locked>>

SourcesRLock(p) ==
    /\ pc[p] = "ls_rlock"
    /\ RLock(p)
    /\ pc' = [pc EXCEPT ![p] = "ls_copy"]
    /\ UNCHANGED <<feedSources, handler, locals, status, log, now>>

\* copy, RUnlock, and the JSON answer
SourcesCopy(p) ==
    /\ pc[p] = "ls_copy"
    /\ list' = [list EXCEPT ![p] = feedSources]
    /\ RUnlock(p)
    /\ status' = [status EXCEPT ![p] = StatusOK]
    /\ pc' = [pc EXCEPT ![p] = "done"]
    /\ UNCHANGED <<feedSources, handler, body, url, newList, sources, all,
                   log, now, fetched, locked>>

apiSourcesHandler(p) ==
    \/ SourcesBegin(p)
    \/ SourcesRLock(p)
    \/ SourcesCopy(p)

(***************************************************************************)
(* The feed fetcher.                                                       *)
(***************************************************************************)
\* the layouts parsePubDate tries, in its order; the last is the fallback
\* layout without a zone
Layouts == <<"RFC1123Z", "RFC1123", "RFC822Z", "RFC822", "RFC3339", "NoZone">>

\* A date string is the layout it is written in and the instant it encodes;
\* a string written in no layout is layout "none".
Date(l, t) == [layout |-> l, instant |-> t]
Garbage == [layout |-> "none", instant |-> 0]

\* time.Parse(l, v)
timeParse(l, v) ==
    IF v.layout = l
    THEN [t |-> v.instant, err |-> FALSE]
    ELSE [t |-> 0, err |-> TRUE]

RECURSIVE TryLayouts(_, _, _)
TryLayouts(v, i, clock) ==
    IF i > Len(Layouts)
    THEN [t |-> clock, err |-> TRUE]
    ELSE LET r == timeParse(Layouts[i], v)
         IN  IF ~r.err THEN [t |-> r.t, err |-> FALSE]
             ELSE TryLayouts(v, i + 1, clock)

\* parsePubDate, but falling back to the zero time
parsePubDateZero(v, clock) ==
    LET r == TryLayouts(v, 1, clock)
    IN  IF r.err THEN [t |-> 0, err |-> TRUE] ELSE r

\* parsePubDate(v), where clock is what time.Now() returns
parsePubDate(v, clock) == TryLayouts(v, 1, clock)

\* URL.String for a URL without opaque part
urlString(u) ==
    (IF u.scheme # <<>> THEN u.scheme \o <<":">> ELSE <<>>) \o
    (IF (u.scheme # <<>> \/ u.host # <<>>) /\ (u.host # <<>> \/ u.path # <<>>)
     THEN <<"/", "/">> ELSE <<>>) \o
    u.host \o
    (IF u.path # <<>> /\ Head(u.path) # "/" /\ u.host # <<>>
     THEN <<"/">> ELSE <<>>) \o
    u.path

\* resolvePath for paths without "." and ".." segments
resolvePath(base, ref) ==
    IF ref = <<>> THEN base
    ELSE IF Head(ref) # "/"
    THEN SubSeq(base, 1, LastIndex(base, "/")) \o ref
    ELSE ref

\* URL.ResolveReference for a hierarchical base and a reference without
\* scheme
ResolveReference(base, ref) ==
    IF ref.host # <<>>
    THEN [ref EXCEPT !.scheme = base.scheme]
    ELSE [ref EXCEPT !.scheme = base.scheme,
                     !.host = base.host,
                     !.path = LET full == resolvePath(base.path, ref.path)
                              IN  IF full # <<>> /\ Head(full) # "/"
                                  THEN <<"/">> \o full
                                  ELSE full]

\* the link of an item as fetchFeed stores it
ItemLink(feedURL, raw) ==
    LET link == urlParse(raw)
    IN  TrimSpace(IF ~link.err /\ ~IsAbs(link)
                  THEN urlString(ResolveReference(urlParse(feedURL), link))
                  ELSE raw)

\* one <item> of the decoded document as a FeedItem
FeedItem(feedURL, rss, it, clock) ==
    [Title |-> TrimSpace(it.Title),
     Link |-> ItemLink(feedURL, it.Link),
     Description |-> TrimSpace(it.Description),
     Published |-> parsePubDate(it.PubDate, clock).t,
     Source |-> rss.Title]

\* What http.Get and the XML decoder give for a URL: a network error, a
\* body that is not XML, or a decoded document.
NetError == [kind |-> "GET", Title |-> <<>>, Items |-> <<>>]
BadXML == [kind |-> "decode XML", Title |-> <<>>, Items |-> <<>>]
Document(title, items) == [kind |-> "rss", Title |-> title, Items |-> items]

\* fetchFeed(feedURL) when the network answers with resp
fetchFeed(feedURL, resp, clock) ==
    IF resp.kind # "rss"
    THEN [items |-> <<>>, err |-> TRUE]
    ELSE [items |-> [i \in 1..Len(resp.Items) |->
                       FeedItem(feedURL, resp, resp.Items[i], clock)],
          err |-> FALSE]

\* whether fetchFeed reads the clock for resp
ReadsClock(resp) ==
    \E i \in 1..Len(resp.Items) : parsePubDate(resp.Items[i].PubDate, 0).err

(***************************************************************************)
(* sort.Slice(all, less): an insertion sort up to MaxInsertion elements,   *)
(* and beyond that a sort that keeps no promise on the order of equal      *)
(* elements.                                                               *)
(***************************************************************************)
MaxInsertion == 12

\* Less, but with Before in place of After
LessBefore(x, y) == x.Published < y.Published

\* the less function of aggregateFeeds: all[i].Published.After(all[j].Published)
Less(x, y) == x.Published > y.Published

Swap(s, i, j) == [s EXCEPT ![i] = s[j], ![j] = s[i]]

\* Sink, but moving an element past its equals too
RECURSIVE SinkPastEquals(_, _)
SinkPastEquals(s, j) ==
    IF j > 1 /\ ~Less(s[j - 1], s[j])
    THEN SinkPastEquals(Swap(s, j, j - 1), j - 1)
    ELSE s

\* the inner loop of the insertion sort: element j moves towards the front
\* while it is Less than the one before it
RECURSIVE Sink(_, _)
Sink(s, j) ==
    IF j > 1 /\ Less(s[j], s[j - 1])
    THEN Sink(Swap(s, j, j - 1), j - 1)
    ELSE s

RECURSIVE InsertionSortFrom(_, _)
InsertionSortFrom(s, i) ==
    IF i > Len(s) THEN s ELSE InsertionSortFrom(Sink(s, i), i + 1)

insertionSort(s) == InsertionSortFrom(s, 2)

\* the positions of s whose element no other element is Less than
Firsts(s) == { i \in 1..Len(s) : \A j \in 1..Len(s) : ~Less(s[j], s[i]) }

\* s without the positions in D
RECURSIVE Drop(_, _, _)
Drop(s, D, i) ==
    IF i > Len(s) THEN <<>>
    ELSE IF i \in D THEN Drop(s, D, i + 1)
    ELSE <<s[i]>> \o Drop(s, D, i + 1)

\* every arrangement of the positions in D
Arrangements(D) ==
    { f \in [1..Cardinality(D) -> D] :
        \A i, j \in 1..Cardinality(D) : i # j => f[i] # f[j] }

\* every ordering of s in which no element comes before one that is Less
RECURSIVE Orderings(_)
Orderings(s) ==
    IF s = <<>> THEN {<<>>}
    ELSE LET F == Firsts(s)
         IN  { [i \in 1..Cardinality(F) |-> s[f[i]]] \o rest :
                 f \in Arrangements(F), rest \in Orderings(Drop(s, F, 1)) }

sortSlice(s) ==
    IF Len(s) <= MaxInsertion THEN {insertionSort(s)} ELSE Orderings(s)

(***************************************************************************)
(* GET /api/feeds: apiFeedsHandler and aggregateFeeds.  Web maps a URL to  *)
(* the answers the network may give for it.                                *)
(***************************************************************************)
FeedsBegin(p) ==
    /\ pc[p] = "idle"
    /\ handler' = [handler EXCEPT ![p] = "feeds"]
    /\ pc' = [pc EXCEPT ![p] = "ag_rlock"]
    /\ UNCHANGED <<feedSources, srcMu, locals, status, log, now, locked>>

FeedsRLock(p) ==
    /\ pc[p] = "ag_rlock"
    /\ RLock(p)
    /\ pc' = [pc EXCEPT ![p] = "ag_copy"]
    /\ UNCHANGED <<feedSources, handler, locals, status, log, now>>

\* FeedsCopy, but leaving RUnlock for after the fetches
FeedsCopyKeepsRLock(p) ==
    /\ pc[p] = "ag_copy"
    /\ sources' = [sources EXCEPT ![p] = feedSources]
    /\ pc' = [pc EXCEPT ![p] = "ag_fetch"]
    /\ UNCHANGED <<feedSources, srcMu, handler, body, url, list, newList, all,
                   status, log, now, fetched, locked>>

\* copy and RUnlock
FeedsCopy(p) ==
    /\ pc[p] = "ag_copy"
    /\ sources' = [sources EXCEPT ![p] = feedSources]
    /\ RUnlock(p)
    /\ pc' = [pc EXCEPT ![p] = "ag_fetch"]
    /\ UNCHANGED <<feedSources, handler, body, url, list, newList, all,
                   status, log, now, fetched, locked>>

\* FeedsFetch, but giving up at the first source that fails
FeedsFetchFailFast(p, Web) ==
    /\ pc[p] = "ag_fetch"
    /\ Len(fetched[p]) < Len(sources[p])
    /\ LET src == sources[p][Len(fetched[p]) + 1]
       IN  \E resp \in Web[src] :
           \E clock \in (IF ReadsClock(resp) THEN now..MaxNow ELSE {now}) :
             LET got == fetchFeed(src, resp, clock)
             IN  /\ now' = clock
                 /\ fetched' = [fetched EXCEPT ![p] =
                       Append(@, [src |-> src, resp |-> resp, at |-> clock])]
                 /\ IF got.err
                    THEN /\ all' = [all EXCEPT ![p] = <<>>]
                         /\ status' = [status EXCEPT ![p] =
                               StatusInternalServerError]
                         /\ pc' = [pc EXCEPT ![p] = "done"]
                    ELSE /\ all' = [all EXCEPT ![p] = @ \o got.items]
                         /\ UNCHANGED <<status, pc>>
    /\ UNCHANGED <<feedSources, srcMu, handler, body, url, list, newList,
                   sources, log, locked>>

\* one turn of the loop over sources: the next source is fetched
FeedsFetch(p, Web) ==
    /\ pc[p] = "ag_fetch"
    /\ Len(fetched[p]) < Len(sources[p])
    /\ LET src == sources[p][Len(fetched[p]) + 1]
       IN  \E resp \in Web[src] :
           \E clock \in (IF ReadsClock(resp) THEN now..MaxNow ELSE {now}) :
             LET got == fetchFeed(src, resp, clock)
             IN  /\ now' = clock
                 /\ fetched' = [fetched EXCEPT ![p] =
                       Append(@, [src |-> src, resp |-> resp, at |-> clock])]
                 /\ IF got.err
                    THEN /\ log' = [log EXCEPT ![p] =
                               Append(@, [level |-> "WARN",
                                          msg |-> "could not fetch",
                                          src |-> src, err |-> resp.kind])]
                         /\ UNCHANGED all
                    ELSE /\ all' = [all EXCEPT ![p] = @ \o got.items]
                         /\ UNCHANGED log
    /\ UNCHANGED <<feedSources, srcMu, pc, handler, body, url, list, newList,
                   sources, status, locked>>

\* the loop is over: sort, return (all, nil), and the handler's answer
FeedsSort(p) ==
    /\ pc[p] = "ag_fetch"
    /\ Len(fetched[p]) = Len(sources[p])
    /\ \E sorted \in sortSlice(all[p]) :
         LET ret == [items |-> sorted, err |-> FALSE]
         IN  /\ all' = [all EXCEPT ![p] = ret.items]
             /\ status' = [status EXCEPT ![p] =
                   IF ret.err THEN StatusInternalServerError ELSE StatusOK]
    /\ pc' = [pc EXCEPT ![p] = "done"]
    /\ UNCHANGED <<feedSources, srcMu, handler, body, url, list, newList,
                   sources, log, now, fetched, locked>>

apiFeedsHandler(p, Web) ==
    \/ FeedsBegin(p)
    \/ FeedsRLock(p)
    \/ FeedsCopy(p)
    \/ FeedsFetch(p, Web)
    \/ FeedsSort(p)

\* the response is sent and the goroutine ends: a new request may arrive
Finish(p) ==
    /\ pc[p] = "done"
    /\ pc' = [pc EXCEPT ![p] = "idle"]
    /\ handler' = [handler EXCEPT ![p] = "none"]
    /\ body' = [body EXCEPT ![p] = Payload(<<>>)]
    /\ url' = [url EXCEPT ![p] = <<>>]
    /\ list' = [list EXCEPT ![p] = <<>>]
    /\ newList' = [newList EXCEPT ![p] = <<>>]
    /\ sources' = [sources EXCEPT ![p] = <<>>]
    /\ all' = [all EXCEPT ![p] = <<>>]
    /\ status' = [status EXCEPT ![p] = 0]
    /\ fetched' = [fetched EXCEPT ![p] = <<>>]
    /\ locked' = [locked EXCEPT ![p] = FALSE]
    /\ log' = [log EXCEPT ![p] = <<>>]
    /\ UNCHANGED <<feedSources, srcMu, now>>

(***************************************************************************)
(* The feeds the network serves.                                           *)
(***************************************************************************)
Item(title, link, pubDate) ==
    [Title |-> title, Link |-> link, Description |-> <<" ", "d">>,
     PubDate |-> pubDate]

HNFeed ==
    Document(<<"H", "N">>,
             << Item(<<" ", "a", "\n">>, <<"/", "a">>, Date("RFC1123Z", 3)) >>)
RedditFeed ==
    Document(<<"r", "/", "g", "o">>,
             << Item(<<"b">>, <<"h", ":", "/", "/", "r", "/", "b">>,
                  Date("RFC822", 5)) >>)
XFeed ==
    Document(<<"X">>,
             << Item(<<"c">>, <<"c">>, Date("RFC3339", 3)) >>)

\* each source is either down or serves one short feed
SmallWeb ==
    (HackerNews :> {NetError, HNFeed}) @@
    (Reddit :> {BadXML, RedditFeed}) @@
    (XRss :> {NetError, XFeed})

\* the bodies the concurrent clients send
FewAddBodies ==
    {BadJSON, Payload(HackerNews), Payload(XRss),
     Payload(<<" ">> \o XRss \o <<"\n">>), Payload(NotAURL)}
FewRemoveBodies ==
    {BadJSON, Payload(HackerNews), Payload(Reddit), Payload(XRss),
     Payload(NotPresent)}

\* a feed of thirteen items, one more than MaxInsertion; the last item
\* carries the date of the first
LongTitles ==
    <<"a", "b", "c", "d", "e", "f", "g", "h", "i", "j", "k", "l", "m">>
LongFeed ==
    LET n == Len(LongTitles)
    IN  Document(<<"L">>,
                 [i \in 1..n |->
                    Item(<<"l", LongTitles[i]>>, <<"/", LongTitles[i]>>,
                         Date("RFC3339",
                              IF i = n THEN 5 % n ELSE (i * 5) % n))])

\* items newest = 3, one of them with a date in no layout
AFeed ==
    Document(<<" ", "A">>,
             << Item(<<"a", "1">>, <<"a", "1">>, Date("RFC1123", 1)),
                Item(<<" ", "a", "3", " ">>, <<" ", "/", "a", "3">>,
                     Date("RFC1123Z", 3)),
                Item(<<"a", "?">>, <<>>, Garbage) >>)
\* items newest = 5, one dated like an item of AFeed
BFeed ==
    Document(<<"B">>,
             << Item(<<"b", "3">>, <<"/", "/", "b", "/", "3">>,
                     Date("NoZone", 3)),
                Item(<<"b", "5">>, <<"h", ":", "/", "/", "b", "/", "5">>,
                     Date("RFC822Z", 5)) >>)

\* the answers a single client sees
WideWeb ==
    (HackerNews :> {NetError, BadXML, HNFeed, AFeed}) @@
    (Reddit :> {NetError, BadXML, RedditFeed, BFeed, LongFeed}) @@
    (XRss :> {NetError, XFeed})

(***************************************************************************)
(* The server: every request runs in a goroutine of its own.               *)
(***************************************************************************)
\* the source registry under concurrent add, remove and list requests
Next ==
    \E p \in Procs :
        \/ apiAddSourceHandler(p, FewAddBodies)
        \/ apiRemoveSourceHandler(p, FewRemoveBodies)
        \/ apiSourcesHandler(p)
        \/ Finish(p)

Spec == Init /\ [][Next]_vars

\* one client sending one request after the other: every kind of request,
\* every body, every answer of the network
NextSeq ==
    \/ apiAddSourceHandler(1, AddBodies)
    \/ apiRemoveSourceHandler(1, RemoveBodies)
    \/ apiSourcesHandler(1)
    \/ apiFeedsHandler(1, WideWeb)
    \/ Finish(1)

SpecSeq == Init /\ [][NextSeq]_vars

\* GET /api/feeds in goroutine 1 while goroutine 2 serves any request
NextFeeds ==
    \/ apiFeedsHandler(1, SmallWeb)
    \/ Finish(1)
    \/ apiAddSourceHandler(2, FewAddBodies)
    \/ apiRemoveSourceHandler(2, FewRemoveBodies)
    \/ apiSourcesHandler(2)
    \/ apiFeedsHandler(2, SmallWeb)
    \/ Finish(2)

\* the steps of goroutine p that take srcMu, run under it and release it
LockSteps(p) ==
    \/ AddLock(p) \/ AddEnter(p) \/ AddScan(p) \/ AddAppend(p)
    \/ RemoveLock(p) \/ RemoveEnter(p) \/ RemoveScan(p) \/ RemoveStore(p)
    \/ SourcesRLock(p) \/ SourcesCopy(p)
    \/ FeedsRLock(p) \/ FeedsCopy(p)

\* A runnable goroutine runs; a fetch may never return, and no request has
\* to arrive.
SpecFeeds ==
    /\ Init
    /\ [][NextFeeds]_vars
    /\ WF_vars(LockSteps(1))
    /\ WF_vars(LockSteps(2))


(***************************************************************************)
(* Properties of the source registry.                                      *)
(***************************************************************************)
\* how many entries of s are u
Count(s, u) == Cardinality({ i \in 1..Len(s) : s[i] = u })

\* C1: whatever add and remove requests ran, one after the other or at the
\* same time, the source list holds no URL more than once.
NoDuplicateSources ==
    \A i, j \in 1..Len(feedSources) :
        i # j => feedSources[i] # feedSources[j]

\* after a removal, two add requests for one URL race: one is about to
\* append it while the other waits in Lock()
AddsRace ==
    \E p, q \in Procs :
        /\ pc[p] = "add_append" /\ pc[q] = "add_wait"
        /\ url[p] = XRss /\ url[q] = XRss
        /\ Count(feedSources, HackerNews) = 0

\* C2: the add handler's scan answers 409, which is not 400, and leaves the
\* list alone when the trimmed URL is in the list, and otherwise goes on to
\* append and answer 201; once an add request is answered either way, the
\* list holds its URL exactly once.
AddConflict ==
    [][\A p \in Procs :
         LET u == TrimSpace(body[p].URL)
         IN  /\ (pc[p] = "add_cs" /\ pc'[p] # "add_cs") =>
                   IF Count(feedSources, u) > 0
                   THEN /\ pc'[p] = "done"
                        /\ status'[p] = StatusConflict
                        /\ status'[p] # StatusBadRequest
                        /\ feedSources' = feedSources
                   ELSE /\ pc'[p] = "add_append"
                        /\ status'[p] = 0
             /\ (handler[p] = "add" /\ pc[p] # "done" /\ pc'[p] = "done"
                   /\ status'[p] \in {StatusCreated, StatusConflict}) =>
                   Count(feedSources', u) = 1]_vars

\* of two overlapping add requests for " https://x/rss\n" and
\* "https://x/rss", one got 201 and the other 409
SecondAddConflicts ==
    \E p, q \in Procs :
        /\ pc[p] = "done" /\ handler[p] = "add"
        /\ pc[q] = "done" /\ handler[q] = "add"
        /\ body[p] = Payload(XRss) /\ status[p] = StatusCreated
        /\ body[q] = Payload(<<" ">> \o XRss \o <<"\n">>)
        /\ status[q] = StatusConflict
        /\ Count(feedSources, XRss) = 1

\* C3: when the remove handler's scan runs for a URL that is not in the
\* list, the request is answered 404 and the list stays as it is.
RemoveUnknown ==
    [][\A p \in Procs :
         (/\ pc[p] = "rm_cs" /\ pc'[p] # "rm_cs"
          /\ Count(feedSources, TrimSpace(body[p].URL)) = 0) =>
             /\ pc'[p] = "done"
             /\ status'[p] = StatusNotFound
             /\ feedSources' = feedSources]_vars

\* "https://not-present" was asked to be removed and the answer was 404
RemovedUnknown ==
    \E p \in Procs :
        /\ pc[p] = "done" /\ handler[p] = "remove"
        /\ body[p] = Payload(NotPresent)
        /\ status[p] = StatusNotFound
        /\ Len(feedSources) = 3

\* C5: a step changes the source list only by putting a URL that was not in
\* it at its end, or by taking out the one entry equal to the URL of a
\* remove request, the others staying in their order; and GET /api/sources
\* answers with the list as it is then.
InsertionOrder ==
    [][/\ \/ feedSources' = feedSources
          \/ \E p \in Procs :
               /\ handler[p] = "add"
               /\ Count(feedSources, url[p]) = 0
               /\ feedSources' = feedSources \o <<url[p]>>
          \/ \E p \in Procs :
               /\ handler[p] = "remove"
               /\ \E k \in 1..Len(feedSources) :
                    /\ feedSources[k] = url[p]
                    /\ feedSources' =
                         SubSeq(feedSources, 1, k - 1) \o
                         SubSeq(feedSources, k + 1, Len(feedSources))
               /\ Count(feedSources', url[p]) = 0
       /\ \A p \in Procs :
            (handler'[p] = "sources" /\ pc[p] # "done" /\ pc'[p] = "done") =>
                list'[p] = feedSources]_vars

\* the first default was removed and added again after "https://x/rss", and
\* GET /api/sources answered with that order
ReorderedList ==
    /\ feedSources = <<Reddit, XRss, HackerNews>>
    /\ \E p \in Procs :
         pc[p] = "done" /\ handler[p] = "sources" /\ list[p] = feedSources

\* C4: an add request whose body does not decode, whose URL is empty once
\* trimmed, or whose URL does not parse or has no scheme, is answered 400
\* without srcMu.Lock having been called, and the step that answers 400
\* leaves the source list and the lock as they are.
HasScheme(u) ==
    \E k \in 2..Len(u) :
        /\ u[k] = ":"
        /\ u[1] \in Letters
        /\ \A i \in 2..(k - 1) : u[i] \in Letters \cup Digits \cup {"+", "-", "."}

Rejected(b) ==
    \/ b.err
    \/ TrimSpace(b.URL) = <<>>
    \/ urlParse(TrimSpace(b.URL)).err
    \/ ~HasScheme(TrimSpace(b.URL))

AddRejects ==
    /\ [](\A p \in Procs :
            (handler[p] = "add" /\ Rejected(body[p])) =>
                /\ pc[p] = "done"
                /\ status[p] = StatusBadRequest
                /\ ~locked[p])
    /\ [][\A p \in Procs :
            (handler'[p] = "add" /\ status[p] = 0
               /\ status'[p] = StatusBadRequest) =>
                /\ feedSources' = feedSources
                /\ srcMu' = srcMu]_vars

\* "not-a-url" was asked to be added and the answer was 400
RejectedNotAURL ==
    /\ pc[1] = "done" /\ handler[1] = "add"
    /\ body[1] = Payload(NotAURL)
    /\ status[1] = StatusBadRequest
    /\ feedSources = <<Reddit, XRss>>

(***************************************************************************)
(* Properties of the aggregation.                                          *)
(***************************************************************************)
\* the requests whose aggregation has returned
Aggregated == { p \in Procs : pc[p] = "done" /\ handler[p] = "feeds" }

\* the fetches of f that succeeded
Succeeded(f) == { i \in 1..Len(f) : f[i].resp.kind = "rss" }

\* item x is what the fetcher makes of entry it of document resp
Carries(x, resp, it) ==
    /\ x.Title = TrimSpace(it.Title)
    /\ x.Description = TrimSpace(it.Description)
    /\ x.Source = resp.Title

RECURSIVE SumLen(_)
SumLen(f) ==
    IF f = <<>> THEN 0
    ELSE (IF Head(f).resp.kind = "rss" THEN Len(Head(f).resp.Items) ELSE 0)
         + SumLen(Tail(f))

\* C6: whichever sources fail, the aggregation answers 200, never 500, with
\* exactly the items of the sources that were fetched: every entry of every
\* document that arrived, and nothing else.
PartialResults ==
    /\ \A p \in Procs : status[p] # StatusInternalServerError
    /\ \A p \in Aggregated :
         /\ status[p] = StatusOK
         /\ Len(fetched[p]) = Len(sources[p])
         /\ Len(all[p]) = SumLen(fetched[p])
         /\ \A i \in Succeeded(fetched[p]) :
              \A j \in 1..Len(fetched[p][i].resp.Items) :
                \E k \in 1..Len(all[p]) :
                  Carries(all[p][k], fetched[p][i].resp,
                          fetched[p][i].resp.Items[j])
         /\ \A k \in 1..Len(all[p]) :
              \E i \in Succeeded(fetched[p]) :
                \E j \in 1..Len(fetched[p][i].resp.Items) :
                  Carries(all[p][k], fetched[p][i].resp,
                          fetched[p][i].resp.Items[j])

\* the first source failed, the second was fetched, and its items are served
ServedWithoutFailedSource ==
    /\ 1 \in Aggregated
    /\ Len(fetched[1]) = 2
    /\ fetched[1][1].resp = NetError
    /\ fetched[1][2].resp = BFeed
    /\ Len(all[1]) = 2

\* C7: the list an aggregation returns is ordered newest first: no item is
\* published before the one after it, so the first is published no earlier
\* than any entry of any fetched document.
NewestFirst ==
    \A p \in Aggregated :
        /\ \A k \in 1..(Len(all[p]) - 1) :
             all[p][k].Published >= all[p][k + 1].Published
        /\ \A i \in Succeeded(fetched[p]) :
             \A j \in 1..Len(fetched[p][i].resp.Items) :
               LET d == fetched[p][i].resp.Items[j].PubDate
               IN  all[p][1].Published >=
                     (IF d.layout = "none" THEN fetched[p][i].at
                      ELSE d.instant)

\* sources A (newest 3) and B (newest 5) were merged and the first item is
\* B's, published at 5
NewestOfSecondSourceFirst ==
    /\ 1 \in Aggregated
    /\ Len(fetched[1]) = 2
    /\ fetched[1][1].resp = AFeed
    /\ fetched[1][2].resp = BFeed
    /\ all[1][1].Title = <<"b", "5">>
    /\ all[1][1].Published = 5

\* the items of the fetches f in the order the aggregation appended them
RECURSIVE Concat(_)
Concat(f) ==
    IF f = <<>> THEN <<>>
    ELSE fetchFeed(Head(f).src, Head(f).resp, Head(f).at).items
         \o Concat(Tail(f))

\* where a stable sort, newest first, puts element i of c
Rank(c, i) ==
    Cardinality({ k \in 1..Len(c) : c[k].Published > c[i].Published })
    + Cardinality({ k \in 1..(i - 1) : c[k].Published = c[i].Published })
    + 1

StableOrder(c) ==
    [r \in 1..Len(c) |-> c[CHOOSE i \in 1..Len(c) : Rank(c, i) = r]]

\* C8, as stated: the list an aggregation returns is the stable sort of the
\* concatenation, items published at the same time keeping their order.
StableSort ==
    \A p \in Aggregated : all[p] = StableOrder(Concat(fetched[p]))

\* C8, amended: the list an aggregation returns holds the items of the
\* concatenation, newest first; items published at the same time keep their
\* order when the list has at most MaxInsertion items.
StableUpToMaxInsertion ==
    \A p \in Aggregated :
        LET c == Concat(fetched[p])
        IN  /\ Len(all[p]) = Len(c)
            /\ \A k \in 1..Len(c) : Count(all[p], c[k]) = Count(c, c[k])
            /\ \A k \in 1..(Len(all[p]) - 1) :
                 all[p][k].Published >= all[p][k + 1].Published
            /\ Len(c) <= MaxInsertion => all[p] = StableOrder(c)

\* A's item published at 3 was appended before B's item published at 3, and
\* is served right before it
TieKeepsOrder ==
    /\ 1 \in Aggregated
    /\ Len(fetched[1]) = 2
    /\ fetched[1][1].resp = AFeed
    /\ fetched[1][2].resp = BFeed
    /\ \E k \in 1..(Len(all[1]) - 1) :
         /\ all[1][k].Title = <<"a", "3">>
         /\ all[1][k + 1].Title = <<"b", "3">>

\* the entries of document resp whose date is written in no layout
Undated(resp) ==
    { j \in 1..Len(resp.Items) : resp.Items[j].PubDate.layout = "none" }

\* C9, as stated: a date that matches no layout leaves a line in the log.
ParseFailureLogged ==
    \A p \in Procs :
        \A i \in Succeeded(fetched[p]) :
            Undated(fetched[p][i].resp) # {} =>
                \E k \in 1..Len(log[p]) : log[p][k].msg = "unparseable date"

\* C9, amended: for a date that matches no layout the date parser returns
\* the wall-clock time with a parse failure, which the fetcher drops: nothing
\* is logged for it (the log holds one line per failed fetch and no other),
\* the item is among the fetched items with the time of the call as its
\* published time, and the fetch of its feed succeeds.
ParseFailureDropped ==
    \A p \in Procs :
        /\ Len(log[p]) = Len(fetched[p]) - Cardinality(Succeeded(fetched[p]))
        /\ \A i \in Succeeded(fetched[p]) :
             \A j \in Undated(fetched[p][i].resp) :
               LET f == fetched[p][i]
                   r == parsePubDate(f.resp.Items[j].PubDate, f.at)
               IN  /\ r.err
                   /\ r.t = f.at
                   /\ f.at <= now
                   /\ \E k \in 1..Len(all[p]) :
                        /\ Carries(all[p][k], f.resp, f.resp.Items[j])
                        /\ all[p][k].Published = f.at
                   /\ \A k \in 1..Len(log[p]) : log[p][k].src # f.src

\* a feed with an undated entry was fetched when the clock read 2: the
\* entry is among the items, published at 2, and nothing was logged
UndatedItemServed ==
    /\ pc[1] = "ag_fetch"
    /\ Len(fetched[1]) = 1
    /\ fetched[1][1].resp = AFeed
    /\ fetched[1][1].at = 2
    /\ \E k \in 1..Len(all[1]) :
         all[1][k].Title = <<"a", "?">> /\ all[1][k].Published = 2
    /\ log[1] = <<>>

(***************************************************************************)
(* Properties of the aggregation next to other requests.                   *)
(***************************************************************************)
\* where a request is between its call of Lock or RLock and the matching
\* unlock
InLockPhase ==
    {"add_lock", "add_wait", "add_cs", "add_append", "rm_lock", "rm_wait",
     "rm_cs", "rm_store", "ls_rlock", "ls_copy", "ag_rlock", "ag_copy"}

\* C10: an aggregation in its fetch loop holds srcMu in no way; its copy of
\* the list is the list as it was when copied and does not change
\* afterwards; it fetches the URLs of that copy in order, all of them by the
\* time it returns; and whatever goroutine 1 does, a fetch that never
\* returns included, every request of goroutine 2 that is about to take the
\* lock gets it and leaves it: add, remove and list requests are answered,
\* and an aggregation reaches its own fetch loop.
FetchesOutsideLock ==
    /\ [](\A p \in Procs :
            pc[p] = "ag_fetch" =>
                p \notin readers /\ p \notin waiting /\ writer # p)
    /\ [](\A p \in Procs :
            /\ Len(fetched[p]) <= Len(sources[p])
            /\ \A i \in 1..Len(fetched[p]) :
                 fetched[p][i].src = sources[p][i]
            /\ p \in Aggregated => Len(fetched[p]) = Len(sources[p]))
    /\ [][\A p \in Procs :
            /\ (pc[p] = "ag_copy" /\ pc'[p] = "ag_fetch") =>
                  sources'[p] = feedSources
            /\ (pc[p] = "ag_fetch" /\ handler'[p] = "feeds") =>
                  sources'[p] = sources[p]]_vars
    /\ (pc[2] \in InLockPhase) ~> (pc[2] \in {"done", "ag_fetch"})

\* while goroutine 1 had fetched the first of the two default sources, a
\* request to remove the second one was answered 200
RemovedDuringFetch ==
    /\ pc[1] = "ag_fetch"
    /\ sources[1] = DefaultSources
    /\ Len(fetched[1]) = 1
    /\ pc[2] = "done" /\ handler[2] = "remove"
    /\ url[2] = Reddit /\ status[2] = StatusOK
    /\ feedSources = <<HackerNews>>

=============================================================================
